---- MODULE Spec2Model ----
(***************************************************************************)
(* A-star grid path planner of unit3_pp/scripts/unit3_astar_solution.py.   *)
(*                                                                         *)
(* Lengths (step costs, g, h, f) are fixed-point numbers: Unit stands for  *)
(* one `resolution` (0.2 m).  Node indices are Python list indices: a      *)
(* negative index reads the cost array from its end, an index outside      *)
(* [-len, len) raises IndexError.                                          *)
(*                                                                         *)
(* The source computes the costs in floating point.  Costs that differ     *)
(* here differ in the same direction there; costs that are equal here can  *)
(* come out either way there, so every comparison of equal costs (the sort *)
(* of the open list, the `<` of the relaxation) is a choice.               *)
(***************************************************************************)
EXTENDS Integers, Sequences, FiniteSets, TLC

VARIABLES width, height, costmap, start_index, goal_index,
          open_list, closed_list, parents, g_costs, f_costs,
          shortest_path, path_found, current_node, neighbors, node, pc

vars == <<width, height, costmap, start_index, goal_index,
          open_list, closed_list, parents, g_costs, f_costs,
          shortest_path, path_found, current_node, neighbors, node, pc>>

\* ---------------------------------------------------------------- bounds
MaxWidth == 3
MaxHeight == 3
MaxObstacles == 1
\* largest argument of the tabulated square roots
RootCacheMax == 64

\* ------------------------------------------------------------- constants
\* fixed-point value of `resolution` (0.2), the orthogonal step cost
Unit == 1000000
\* the literal 1.41421, times 100000
DiagNumer == 141421
DiagDenom == 100000
lethal_cost == 1
\* origin = [-7.4, -7.4, 0], in multiples of `resolution`
origin == <<-37, -37>>
\* cost values of the drawn grids: free, and the lowest lethal value
CostValues == {0, lethal_cost}

\* ---------------------------------------------------------- square root
\* floor of the square root of a small natural number
SmallRoot(k) == CHOOSE s \in 0..k : s * s <= k /\ k < (s + 1) * (s + 1)

\* r*r <= k * Unit * Unit, computed in base-1000 limbs (no 32-bit overflow)
SquareLeq(r, k) ==
  LET B == 1000
      a == r \div B
      b == r % B
      c == (2 * a * b) \div B
      d == (2 * a * b) % B
      low == d * B + b * b
      H == a * a + c + (low \div (B * B))
      L == low % (B * B)
  IN H < k * Unit \/ (H = k * Unit /\ L = 0)

RECURSIVE RootSearch(_, _, _)
RootSearch(k, lo, hi) ==
  IF hi - lo <= 1 THEN lo
  ELSE LET mid == (lo + hi) \div 2
       IN IF SquareLeq(mid, k) THEN RootSearch(k, mid, hi)
                               ELSE RootSearch(k, lo, mid)

\* floor(Unit * sqrt(k)): `distance ** 0.5` on a sum of squares k
ScaledRoot(k) == RootSearch(k, Unit * SmallRoot(k), Unit * (SmallRoot(k) + 1))

\* ------------------------------------------------------------ cost array
\* costmap[i] of a Python list: defined for -len <= i < len
Readable(cm, i) == -Len(cm) <= i /\ i < Len(cm)
CostAt(cm, i) == IF i >= 0 THEN cm[i + 1] ELSE cm[Len(cm) + i + 1]

\* ----------------------------------------------------------- find_neighbors
\* orthogonal_step_cost * 1.41421; the step cost is a multiple of DiagDenom
diagonal_step_cost(orthogonal_step_cost) ==
  (orthogonal_step_cost \div DiagDenom) * DiagNumer

\* one `if guard: if costmap[cand] < lethal_cost: append` block; acc is
\* [nbrs, raised]; a read outside the list raises and ends the call
Probe(acc, cm, cand, guard, base) ==
  IF acc.raised \/ ~guard THEN acc
  ELSE IF ~Readable(cm, cand) THEN [acc EXCEPT !.raised = TRUE]
  ELSE IF CostAt(cm, cand) < lethal_cost
       THEN [acc EXCEPT !.nbrs =
               Append(@, <<cand, base + ((CostAt(cm, cand) * Unit) \div 255)>>)]
       ELSE acc

find_neighbors(index, w, h, cm, orthogonal_step_cost) ==
  LET orth == orthogonal_step_cost
      diag == diagonal_step_cost(orthogonal_step_cost)
      upper == index - w
      left == index - 1
      upper_left == index - w - 1
      upper_right == index - w + 1
      right == index + 1
      lower_left == index + w - 1
      lower == index + w
      lower_right == index + w + 1
      a0 == [nbrs |-> <<>>, raised |-> FALSE]
      a1 == Probe(a0, cm, upper, upper > 0, orth)
      a2 == Probe(a1, cm, left, left % w > 0, orth)
      a3 == Probe(a2, cm, upper_left, upper_left > 0 /\ upper_left % w > 0, diag)
      a4 == Probe(a3, cm, upper_right,
                  upper_right > 0 /\ upper_right % w # (w - 1), diag)
      a5 == Probe(a4, cm, right, right % w # (w + 1), orth)
      a6 == Probe(a5, cm, lower_left,
                  lower_left < h * w /\ lower_left % w # 0, diag)
      a7 == Probe(a6, cm, lower, lower <= h * w, orth)
      a8 == Probe(a7, cm, lower_right,
                  lower_right <= h * w /\ lower_right % w # (w - 1), diag)
  IN a8

\* ------------------------------------------------------------ indexToWorld
\* world coordinates in multiples of `resolution`
indexToWorld(flatmap_index, map_width) ==
  <<(flatmap_index % map_width) + origin[1],
    (flatmap_index \div map_width) + origin[2]>>

\* ScaledRoot, tabulated once for the small arguments
RootCache == [k \in 0..RootCacheMax |-> ScaledRoot(k)]

euclidean_distance(a, b) ==
  LET distance == (a[1] - b[1]) * (a[1] - b[1]) + (a[2] - b[2]) * (a[2] - b[2])
  IN IF distance <= RootCacheMax THEN RootCache[distance]
                                 ELSE ScaledRoot(distance)

\* h cost of a node, lines 171-173 and 219-221
h_cost(n, goal, w) ==
  euclidean_distance(indexToWorld(n, w), indexToWorld(goal, w))

\* ------------------------------------------------------------------ a_star
\* dict assignment d[k] = v
Put(d, k, v) == [x \in DOMAIN d \cup {k} |-> IF x = k THEN v ELSE d[x]]

\* list.sort(key = lambda x: x[1]): stable insertion by the second element
RECURSIVE InsertByF(_, _)
InsertByF(sorted, e) ==
  IF sorted = <<>> THEN <<e>>
  ELSE IF sorted[Len(sorted)][2] <= e[2] THEN Append(sorted, e)
  ELSE Append(InsertByF(SubSeq(sorted, 1, Len(sorted) - 1), e),
              sorted[Len(sorted)])

\* the open list left as it is
SortByF_Unsorted(l) == l

RECURSIVE SortByF(_)
SortByF(l) ==
  IF l = <<>> THEN <<>>
  ELSE InsertByF(SortByF(SubSeq(l, 1, Len(l) - 1)), l[Len(l)])

\* position of the first element of the open list holding node n, 0 if none
IndexInOpen(ol, n) ==
  IF \E i \in 1..Len(ol) : ol[i][1] = n
  THEN CHOOSE i \in 1..Len(ol) :
         ol[i][1] = n /\ \A j \in 1..(i - 1) : ol[j][1] # n
  ELSE 0

\* the loop body with one deviation, selected by bug:
\*   "no_closed_check"  the `in closed_list` test is missing
\*   "always_update"    an open neighbor is updated whatever its f cost
\*   "no_parent"        a newly discovered neighbor gets no parent
\*   "no_key_update"    the open list entry of an updated neighbor is kept
RelaxVariant(st, cur, nb, goal, w, closed, onTie, bug) ==
  LET neighbor_index == nb[1]
      step_cost == nb[2]
      g_cost == st.g[cur] + step_cost
      f_cost == g_cost + h_cost(neighbor_index, goal, w)
      idx == IndexInOpen(st.ol, neighbor_index)
  IN IF bug # "no_closed_check" /\ neighbor_index \in closed THEN st
     ELSE IF idx # 0
     THEN IF \/ bug = "always_update"
             \/ f_cost < st.f[neighbor_index]
             \/ (onTie /\ f_cost = st.f[neighbor_index])
          THEN [ol |-> IF bug = "no_key_update" THEN st.ol
                       ELSE [st.ol EXCEPT ![idx] = <<neighbor_index, f_cost>>],
                g |-> Put(st.g, neighbor_index, g_cost),
                f |-> Put(st.f, neighbor_index, f_cost),
                p |-> Put(st.p, neighbor_index, cur)]
          ELSE st
     ELSE [ol |-> Append(st.ol, <<neighbor_index, f_cost>>),
           g |-> Put(st.g, neighbor_index, g_cost),
           f |-> Put(st.f, neighbor_index, f_cost),
           p |-> IF bug = "no_parent" THEN st.p
                 ELSE Put(st.p, neighbor_index, cur)]

Relax_NoClosedCheck(st, cur, nb, goal, w, closed, onTie) ==
  RelaxVariant(st, cur, nb, goal, w, closed, onTie, "no_closed_check")
Relax_AlwaysUpdate(st, cur, nb, goal, w, closed, onTie) ==
  RelaxVariant(st, cur, nb, goal, w, closed, onTie, "always_update")
Relax_NoParent(st, cur, nb, goal, w, closed, onTie) ==
  RelaxVariant(st, cur, nb, goal, w, closed, onTie, "no_parent")
Relax_NoKeyUpdate(st, cur, nb, goal, w, closed, onTie) ==
  RelaxVariant(st, cur, nb, goal, w, closed, onTie, "no_key_update")

\* body of `for neighbor_index, step_cost in neighbors`, lines 209-253;
\* st is [ol, g, f, p].  The costs are floats in the source: two sums that
\* are equal here may differ in their last bit there, so `<` on equal costs
\* goes either way; onTie is the way it goes for this neighbor
Relax(st, cur, nb, goal, w, closed, onTie) ==
  LET neighbor_index == nb[1]
      step_cost == nb[2]
      g_cost == st.g[cur] + step_cost
      f_cost == g_cost + h_cost(neighbor_index, goal, w)
      idx == IndexInOpen(st.ol, neighbor_index)
  IN IF neighbor_index \in closed THEN st
     ELSE IF idx # 0
     THEN IF f_cost < st.f[neighbor_index]
             \/ (onTie /\ f_cost = st.f[neighbor_index])
          THEN [ol |-> [st.ol EXCEPT ![idx] = <<neighbor_index, f_cost>>],
                g |-> Put(st.g, neighbor_index, g_cost),
                f |-> Put(st.f, neighbor_index, f_cost),
                p |-> Put(st.p, neighbor_index, cur)]
          ELSE st
     ELSE [ol |-> Append(st.ol, <<neighbor_index, f_cost>>),
           g |-> Put(st.g, neighbor_index, g_cost),
           f |-> Put(st.f, neighbor_index, f_cost),
           p |-> Put(st.p, neighbor_index, cur)]

\* the whole `for` loop; ties is the set of positions in nbs whose
\* comparison on equal costs comes out as `less`
RECURSIVE RelaxAll(_, _, _, _, _, _, _, _)
RelaxAll(st, cur, nbs, k, goal, w, closed, ties) ==
  IF k > Len(nbs) THEN st
  ELSE RelaxAll(Relax(st, cur, nbs[k], goal, w, closed, k \in ties),
                cur, nbs, k + 1, goal, w, closed, ties)

\* positions of the open neighbors whose new f cost equals the recorded one
TiePositions(nbs, cur, goal, w, g, f, closed) ==
  {k \in 1..Len(nbs) :
     /\ nbs[k][1] \in DOMAIN f
     /\ nbs[k][1] \notin closed
     /\ g[cur] + nbs[k][2] + h_cost(nbs[k][1], goal, w) = f[nbs[k][1]]}

EmptyDict == [x \in {} |-> 0]

\* state at line 184, initialization done
InitSearch ==
  /\ open_list = <<<<start_index, h_cost(start_index, goal_index, width)>>>>
  /\ closed_list = {}
  /\ parents = EmptyDict
  /\ g_costs = (start_index :> 0)
  /\ f_costs = (start_index :> h_cost(start_index, goal_index, width))
  /\ shortest_path = <<>>
  /\ path_found = FALSE
  /\ current_node = start_index
  /\ neighbors = <<>>
  /\ node = start_index
  /\ pc = "loop"

\* cost arrays of length n with at most MaxObstacles lethal cells
Costmaps(n) ==
  {cm \in [1..n -> CostValues] :
     Cardinality({i \in 1..n : cm[i] >= lethal_cost}) <= MaxObstacles}

\* a drawn grid with any start and goal cell
DrawnGrid ==
  /\ width \in 1..MaxWidth
  /\ height \in 1..MaxHeight
  /\ costmap \in Costmaps(width * height)
  /\ start_index \in 0..(width * height - 1)
  /\ goal_index \in 0..(width * height - 1)

\* a drawn-size grid whose lethal cells are exactly the cells around the start
WalledInGrid ==
  /\ width \in 1..MaxWidth
  /\ height \in 1..MaxHeight
  /\ start_index \in 0..(width * height - 1)
  /\ goal_index \in 0..(width * height - 1)
  /\ costmap = [i \in 1..(width * height) |->
                  IF /\ i - 1 # start_index
                     /\ ((i - 1) \div width) - (start_index \div width) \in -1..1
                     /\ ((i - 1) % width) - (start_index % width) \in -1..1
                  THEN lethal_cost ELSE 0]

\* the 5x5 scenario grids: all cells free, or one full row of cost 255
\* between the start in the top-left and the goal in the bottom-right corner
ScenarioGrid ==
  /\ width = 5
  /\ height = 5
  /\ \E blocked \in 0..3 :
       costmap = [i \in 1..25 |->
                    IF blocked > 0 /\ (i - 1) \div 5 = blocked THEN 255 ELSE 0]
  /\ start_index = 0
  /\ goal_index = 24

Init ==
  /\ DrawnGrid \/ WalledInGrid \/ ScenarioGrid
  /\ InitSearch

\* one iteration of `while open_list`, lines 187-256.  The sort is stable
\* on the fixed-point costs; among the entries whose cost equals the lowest
\* one, the float rounding of the source decides which comes first, so any
\* of them can be the one popped
Expand ==
  /\ pc = "loop"
  /\ open_list # <<>>
  /\ \E sorted \in {SortByF(open_list)} :
     \E i \in 1..Len(sorted) :
        /\ sorted[i][2] = sorted[1][2]
        /\ LET cur == sorted[i][1]
               rest == SubSeq(sorted, 1, i - 1) \o SubSeq(sorted, i + 1, Len(sorted))
           IN /\ current_node' = cur
              /\ closed_list' = closed_list \cup {cur}
              /\ IF cur = goal_index
                 THEN /\ path_found' = TRUE
                      /\ pc' = "after_loop"
                      /\ open_list' = rest
                      /\ UNCHANGED <<neighbors, g_costs, f_costs, parents>>
                 ELSE \E fn \in {find_neighbors(cur, width, height, costmap, Unit)} :
                      IF fn.raised
                      THEN /\ pc' = "raised"
                           /\ open_list' = rest
                           /\ neighbors' = fn.nbrs
                           /\ UNCHANGED <<path_found, g_costs, f_costs, parents>>
                      ELSE \E ties \in SUBSET TiePositions(fn.nbrs, cur, goal_index, width,
                                                          g_costs, f_costs,
                                                          closed_list \cup {cur}) :
                           \E st \in {RelaxAll([ol |-> rest, g |-> g_costs,
                                                f |-> f_costs, p |-> parents],
                                               cur, fn.nbrs, 1, goal_index, width,
                                               closed_list \cup {cur}, ties)} :
                              /\ neighbors' = fn.nbrs
                              /\ open_list' = st.ol
                              /\ g_costs' = st.g
                              /\ f_costs' = st.f
                              /\ parents' = st.p
                              /\ UNCHANGED <<path_found, pc>>
  /\ UNCHANGED <<width, height, costmap, start_index, goal_index,
                 shortest_path, node>>

\* `while open_list` ends with the open list empty, line 187
ExitLoop ==
  /\ pc = "loop"
  /\ open_list = <<>>
  /\ pc' = "after_loop"
  /\ UNCHANGED <<width, height, costmap, start_index, goal_index, open_list,
                 closed_list, parents, g_costs, f_costs, shortest_path,
                 path_found, current_node, neighbors, node>>

\* lines 260-262
ReturnNoPath ==
  /\ pc = "after_loop"
  /\ ~path_found
  /\ pc' = "done"
  /\ UNCHANGED <<width, height, costmap, start_index, goal_index, open_list,
                 closed_list, parents, g_costs, f_costs, shortest_path,
                 path_found, current_node, neighbors, node>>

\* BeginReconstruct without `shortest_path.append(goal_index)`
BeginReconstruct_NoAppend ==
  /\ pc = "after_loop"
  /\ path_found
  /\ node' = goal_index
  /\ pc' = "reconstruct"
  /\ UNCHANGED <<width, height, costmap, start_index, goal_index, open_list,
                 closed_list, parents, g_costs, f_costs, shortest_path,
                 path_found, current_node, neighbors>>

\* lines 265-267
BeginReconstruct ==
  /\ pc = "after_loop"
  /\ path_found
  /\ node' = goal_index
  /\ shortest_path' = Append(shortest_path, goal_index)
  /\ pc' = "reconstruct"
  /\ UNCHANGED <<width, height, costmap, start_index, goal_index, open_list,
                 closed_list, parents, g_costs, f_costs,
                 path_found, current_node, neighbors>>

\* one iteration of `while node != start_index`, lines 268-270
ReconstructStep ==
  /\ pc = "reconstruct"
  /\ node # start_index
  /\ shortest_path' = Append(shortest_path, node)
  /\ IF node \in DOMAIN parents
     THEN node' = parents[node] /\ pc' = pc
     ELSE node' = node /\ pc' = "raised"
  /\ UNCHANGED <<width, height, costmap, start_index, goal_index, open_list,
                 closed_list, parents, g_costs, f_costs,
                 path_found, current_node, neighbors>>

Reverse(s) == [i \in 1..Len(s) |-> s[Len(s) + 1 - i]]

\* lines 272-276
ReturnPath ==
  /\ pc = "reconstruct"
  /\ node = start_index
  /\ shortest_path' = Reverse(shortest_path)
  /\ pc' = "done"
  /\ UNCHANGED <<width, height, costmap, start_index, goal_index, open_list,
                 closed_list, parents, g_costs, f_costs,
                 path_found, current_node, neighbors, node>>

Next ==
  \/ Expand
  \/ ExitLoop
  \/ ReturnNoPath
  \/ BeginReconstruct
  \/ ReconstructStep
  \/ ReturnPath

Spec == Init /\ [][Next]_vars

\* ------------------------------------------------------ the grid as meant
Abs(x) == IF x < 0 THEN -x ELSE x
Cells == 0..(width * height - 1)
Row(i) == i \div width
Col(i) == i % width
Passable(i) == i \in Cells /\ costmap[i + 1] < lethal_cost

\* the two indices are distinct 8-adjacent cells of the 2-D grid
Adjacent8(a, b) ==
  /\ a # b
  /\ Abs(Row(a) - Row(b)) <= 1
  /\ Abs(Col(a) - Col(b)) <= 1

\* the up to 8 grid-adjacent cells of a cell
GridNeighbors(i) == {j \in Cells : Adjacent8(i, j)}

NeighborIndices == {neighbors[k][1] : k \in 1..Len(neighbors)}

\* cheapest cost from the start to every cell over the 8-connected grid of
\* passable cells, by exhaustive relaxation
GridStep(a, b) ==
  IF Row(a) = Row(b) \/ Col(a) = Col(b) THEN Unit ELSE diagonal_step_cost(Unit)
\* D is a set of <<cell, cost>> pairs, one per reached cell
Cheapest(D) == {q \in D : \A q2 \in D : q2[1] = q[1] => q[2] <= q2[2]}
RECURSIVE Exhaustive(_)
Exhaustive(D) ==
  LET more == UNION {{<<j, q[2] + GridStep(q[1], j)>> :
                        j \in {x \in GridNeighbors(q[1]) : Passable(x)}} : q \in D}
      next == Cheapest(D \cup more)
  IN IF next = D THEN D ELSE Exhaustive(next)
FromStart == Exhaustive({<<start_index, 0>>})
GoalReachable == \E q \in FromStart : q[1] = goal_index
BruteForceCost == (CHOOSE q \in FromStart : q[1] = goal_index)[2]

\* ------------------------------------------------------------------ claims

\* C1: a returned non-empty path has start_index as its first element and
\* goal_index as its last
C1_PathRunsStartToGoal ==
  (pc = "done" /\ shortest_path # <<>>) =>
     /\ shortest_path[1] = start_index
     /\ shortest_path[Len(shortest_path)] = goal_index

\* C2: every consecutive pair of a returned path is a pair of distinct
\* 8-adjacent grid cells
C2_PathStepsAdjacent ==
  pc = "done" =>
     \A k \in 1..(Len(shortest_path) - 1) :
        Adjacent8(shortest_path[k], shortest_path[k + 1])

\* C3: the cost of a returned path is at most the cost of every
\* start-to-goal path of the 8-connected grid of passable cells
C3_PathOptimal ==
  (pc = "done" /\ path_found /\ GoalReachable) =>
     g_costs[goal_index] <= BruteForceCost

\* C4: the search never raises
C4_NeverRaises == pc # "raised"

\* C5: no neighbor returned by find_neighbors lies more than one column
\* away from the expanded cell
C5_NoRowWrap ==
  \A k \in 1..Len(neighbors) :
     Abs(Col(neighbors[k][1]) - Col(current_node)) <= 1

\* C6: every neighbor returned by find_neighbors is an index inside the grid
\* whose cell cost is below lethal_cost
C6_NeighborsInsideAndFree ==
  \A k \in 1..Len(neighbors) : Passable(neighbors[k][1])

\* C7: find_neighbors of a grid cell returns every grid-adjacent passable cell
C7_NeighborsComplete ==
  (pc = "loop" /\ closed_list # {} /\ current_node \in Cells) =>
     \A j \in GridNeighbors(current_node) :
        Passable(j) => j \in NeighborIndices

\* C8: with start_index = goal_index the search does not raise, expands no
\* neighbor, records no parent, and returns exactly <<start_index>>
C8_StartIsGoal ==
  start_index = goal_index =>
     /\ pc # "raised"
     /\ neighbors = <<>>
     /\ DOMAIN parents = {}
     /\ pc = "done" => shortest_path = <<start_index>>

C8_Witness == start_index = goal_index /\ pc = "done" /\ path_found

\* C9: when every grid-adjacent cell of the start is lethal and the goal is
\* another cell, a returned path is empty
StartWalledIn ==
  /\ start_index # goal_index
  /\ \A j \in GridNeighbors(start_index) : ~Passable(j)
C9_WalledInStartGivesEmpty ==
  (StartWalledIn /\ pc = "done") => shortest_path = <<>>

\* C10: on the 5x5 grid with one full row of cost 255 between start 0 and
\* goal 24 no cell beyond that row is discovered, the search does not raise
\* and it returns the empty sequence
BlockedRows ==
  {r \in 1..3 : \A c \in 0..4 : costmap[r * 5 + c + 1] = 255}
RowBlockedScenario ==
  /\ width = 5 /\ height = 5 /\ start_index = 0 /\ goal_index = 24
  /\ \E r \in 1..3 :
       \A i \in 0..24 : costmap[i + 1] = (IF i \div 5 = r THEN 255 ELSE 0)
C10_BlockedRowGivesEmpty ==
  RowBlockedScenario =>
     /\ \A n \in DOMAIN g_costs : \A r \in BlockedRows : n \div 5 < r
     /\ pc # "raised"
     /\ pc = "done" => shortest_path = <<>>

\* C11: on the free 5x5 grid with start 0 and goal 24 the search does not
\* raise and returns the five cells of the diagonal, whose recorded cost is
\* four diagonal steps
FreeScenario ==
  /\ width = 5 /\ height = 5 /\ start_index = 0 /\ goal_index = 24
  /\ \A i \in 1..25 : costmap[i] = 0
C11_FreeGridGivesDiagonal ==
  FreeScenario =>
     /\ pc # "raised"
     /\ pc = "done" =>
          /\ shortest_path = <<0, 6, 12, 18, 24>>
          /\ g_costs[24] = 4 * diagonal_step_cost(Unit)

\* C12: from every cell that reaches the goal over the edges find_neighbors
\* produces, the heuristic is at most the cheapest cost over those edges
\* the edges out of a node; a call that raises produces none
CodeEdges(n) ==
  LET fn == find_neighbors(n, width, height, costmap, Unit)
  IN IF fn.raised THEN {} ELSE {fn.nbrs[k] : k \in 1..Len(fn.nbrs)}
RECURSIVE ExhaustiveCode(_)
ExhaustiveCode(D) ==
  LET more == UNION {{<<e[1], q[2] + e[2]>> : e \in CodeEdges(q[1])} : q \in D}
      next == Cheapest(D \cup more)
  IN IF next = D THEN D ELSE ExhaustiveCode(next)
CostsFrom(c) == ExhaustiveCode({<<c, 0>>})
C12_HeuristicAdmissible ==
  \A c \in Cells :
     \A q \in CostsFrom(c) :
        q[1] = goal_index => h_cost(c, goal_index, width) <= q[2]

\* C14: a request whose start or goal cell is lethal is rejected before the
\* search begins: nothing is in the open list and nothing is closed
LethalEndpoint ==
  \/ costmap[start_index + 1] >= lethal_cost
  \/ costmap[goal_index + 1] >= lethal_cost
C14_LethalEndpointRejected ==
  LethalEndpoint => (open_list = <<>> /\ closed_list = {})

OpenNodes == {open_list[i][1] : i \in 1..Len(open_list)}

\* C15: in every step the closed set only grows, by at most the node just
\* extracted, which was open and not closed before; afterwards no closed
\* node is in the open list
C15_ClosedSetDiscipline ==
  [][/\ closed_list \subseteq closed_list'
     /\ closed_list' # closed_list =>
          /\ closed_list' = closed_list \cup {current_node'}
          /\ current_node' \notin closed_list
          /\ current_node' \in OpenNodes
     /\ \A i \in 1..Len(open_list') : open_list'[i][1] \notin closed_list']_vars

\* a neighbor of the expanded node was skipped because it is closed, and
\* nodes are still open
C15_Witness ==
  /\ pc = "loop"
  /\ Cardinality(closed_list) >= 3
  /\ open_list # <<>>
  /\ \E k \in 1..Len(neighbors) :
       neighbors[k][1] \in closed_list \ {current_node}

\* C16: the node an iteration extracts has, at that moment, an f cost at
\* most the f cost of every node of the open list
C16_ExtractMinimum ==
  [][(pc = "loop" /\ closed_list' # closed_list) =>
        /\ current_node' \in OpenNodes
        /\ \A i \in 1..Len(open_list) :
              /\ f_costs[current_node'] <= open_list[i][2]
              /\ f_costs[current_node'] <= f_costs[open_list[i][1]]]_vars

\* an extraction has left behind open nodes of a higher f cost, in a list
\* that is out of order
C16_Witness ==
  /\ pc = "loop"
  /\ closed_list # {}
  /\ \E i \in 1..Len(open_list) : open_list[i][2] > f_costs[current_node]
  /\ \E i \in 1..Len(open_list) : \E j \in 1..Len(open_list) :
        i < j /\ open_list[i][2] > open_list[j][2]

\* the key stored in an open list with a node
KeyOf(ol, n) == ol[IndexInOpen(ol, n)][2]

\* the f costs the expansion of current_node' offers to node n
Tentative(n) ==
  {g_costs[current_node'] + neighbors'[k][2] + h_cost(n, goal_index, width) :
     k \in {x \in 1..Len(neighbors') : neighbors'[x][1] = n}}

\* C17: when an iteration meets a neighbor that is already open, its g cost,
\* f cost, parent and key are replaced together, with current_node as the
\* parent, if the offered f cost is lower, and are all kept if it is higher
\* (on equal fixed-point costs the float `<` of the source goes either way);
\* no g cost ever increases, and a closed node keeps g cost, f cost, parent
C17_RelaxationRule ==
  [][/\ (pc = "loop" /\ pc' = "loop" /\ closed_list' # closed_list) =>
          \A n \in OpenNodes \ {current_node'} :
             LET h == h_cost(n, goal_index, width)
                 kept == /\ g_costs'[n] = g_costs[n]
                         /\ f_costs'[n] = f_costs[n]
                         /\ parents'[n] = parents[n]
                         /\ KeyOf(open_list', n) = KeyOf(open_list, n)
                 replaced == /\ parents'[n] = current_node'
                             /\ f_costs'[n] \in Tentative(n)
                             /\ f_costs'[n] <= f_costs[n]
                             /\ g_costs'[n] = f_costs'[n] - h
                             /\ KeyOf(open_list', n) = f_costs'[n]
             IN /\ kept \/ replaced
                /\ (\E t \in Tentative(n) : t < f_costs[n]) =>
                      (replaced /\ f_costs'[n] < f_costs[n])
                /\ (\A t \in Tentative(n) : t > f_costs[n]) => kept
     /\ \A n \in DOMAIN g_costs :
           n \in DOMAIN g_costs' /\ g_costs'[n] <= g_costs[n]
     /\ \A n \in closed_list :
           /\ g_costs'[n] = g_costs[n]
           /\ f_costs'[n] = f_costs[n]
           /\ n \in DOMAIN parents' <=> n \in DOMAIN parents
           /\ n \in DOMAIN parents => parents'[n] = parents[n]]_vars

\* an open node has current_node as parent although a node behind it in the
\* open list was discovered earlier: the node was open before this iteration
\* and the iteration replaced its record
C17_Witness ==
  /\ pc = "loop"
  /\ \E i \in 1..Len(open_list) : \E j \in 1..Len(open_list) :
        /\ i < j
        /\ parents[open_list[i][1]] = current_node
        /\ parents[open_list[j][1]] # current_node

\* the node reached from n by following k parent links, stopping at the
\* start or at a node without a parent
RECURSIVE Ancestor(_, _)
Ancestor(n, k) ==
  IF k = 0 \/ n = start_index \/ n \notin DOMAIN parents THEN n
  ELSE Ancestor(parents[n], k - 1)

\* the nodes on the parent chain of n, n included
Chain(n) == {Ancestor(n, k) : k \in 0..Cardinality(DOMAIN g_costs)}

\* C18: every discovered node but the start has a parent, which is closed;
\* the start has none; the parent chain of a discovered node reaches the
\* start within as many links as there are other discovered nodes, so it
\* repeats no node; the reconstruction never stands on a node without parent
C18_ParentChains ==
  /\ DOMAIN parents = DOMAIN g_costs \ {start_index}
  /\ \A n \in DOMAIN parents : parents[n] \in closed_list
  /\ \A n \in DOMAIN g_costs :
        Ancestor(n, Cardinality(DOMAIN g_costs) - 1) = start_index
  /\ pc = "reconstruct" => (node = start_index \/ node \in DOMAIN parents)
  /\ pc = "raised" => ~path_found

\* the reconstruction has followed at least two parent links
C18_Witness ==
  /\ pc = "reconstruct"
  /\ node = start_index
  /\ Len(shortest_path) >= 3
  /\ Cardinality(Chain(goal_index)) >= 3

\* C19: every invocation runs to completion: the expand loop is left with
\* the goal extracted or with open_list empty, the reconstruction loop ends
\* after at most one step per discovered node, and a run that has stopped
\* has returned a result
C19_RunsToCompletion ==
  /\ pc \in {"after_loop", "reconstruct", "done"} =>
        (path_found \/ open_list = <<>>)
  /\ pc = "reconstruct" => Len(shortest_path) <= Cardinality(DOMAIN g_costs)
  /\ pc \notin {"loop", "after_loop", "reconstruct"} => pc = "done"

\* C20: at every loop boundary a node is at most once in open_list, its key
\* is f_costs[node], which is g_costs[node] plus the heuristic to the goal,
\* and every open or closed node has a recorded g_cost and f_cost
C20_OpenListConsistent ==
  /\ \A i \in 1..Len(open_list) : \A j \in 1..Len(open_list) :
        open_list[i][1] = open_list[j][1] => i = j
  /\ \A n \in OpenNodes \cup closed_list :
        n \in DOMAIN g_costs /\ n \in DOMAIN f_costs
  /\ \A i \in 1..Len(open_list) :
        /\ open_list[i][2] = f_costs[open_list[i][1]]
        /\ f_costs[open_list[i][1]] =
              g_costs[open_list[i][1]]
                 + h_cost(open_list[i][1], goal_index, width)

C20_Witness ==
  /\ pc = "loop"
  /\ Len(open_list) >= 3
  /\ Cardinality(closed_list) >= 2
  /\ parents[open_list[Len(open_list)][1]] # current_node
  /\ \E i \in 1..Len(open_list) : parents[open_list[i][1]] = current_node

====
